---- MODULE Spec2Model ----
\* Model of the resumable LP-qualifiers scraper (full-script-resumable.js):
\* paginated event queries, the pool and holder valuation gates, the balance
\* read with retries, the CSV sink and the checkpoint file, over several runs
\* of the process (a run may be killed at any step and started again).
EXTENDS Integers, Sequences, FiniteSets, TLC

VARIABLES
    pc,               \* position of main(): "start", "load", "pairs", ...
    run,              \* number of the current process run
    ckptFile,         \* checkpoint.json on disk: [kind, items]
    csvFile,          \* lp_qualifiers.csv on disk: [exists, lines]
    toBlock,          \* main: latestBlock / toBlock
    checkpoint,       \* main: the in-memory checkpoint value: [kind, items]
    lpPairAddresses,  \* main: result of getLPPairAddresses
    lpPairsToProcess, \* main: the pairs not in the checkpoint
    idx,              \* main: index of lpAddress in lpPairsToProcess
    poolValue,        \* main: value of the current pool
    holders,          \* main: result of getLPHolders for the current pool
    hIdx,             \* checkLPHolderValue: index of addr in holderAddresses
    qualifyingHolders,\* checkLPHolderValue: the records collected so far
    pg,               \* frame of queryFilterPaginated
    fb,               \* frame of fetchBalanceWithRetries
    loaded,           \* history: the checkpoint as loaded in this run
    loadedFrom,       \* history: the kind of the checkpoint file loaded
    ops,              \* history: <<pool, operation>> pairs done in this run
    csv0,             \* history: the output lines at the start of the run
    finished,         \* history: pools whose try block ran to its end
    errored,          \* history: pools whose try block raised
    lastCheck,        \* history: the last balance checkLPHolderValue read, and
                      \* whether it pushed a record for it
    failedReads,      \* history: the holders of the current pool whose
                      \* balance read threw, in the order of the reads
    lostBatch         \* history: a batch query of the holder discovery
                      \* failed for the pool whose valuation was made last

durable == <<ckptFile, csvFile>>
locals == <<toBlock, checkpoint, lpPairAddresses, lpPairsToProcess, idx,
            poolValue, holders, hIdx, qualifyingHolders>>
history == <<loaded, loadedFrom, ops, csv0, finished, errored,
             lastCheck, failedReads, lostBatch>>
vars == <<pc, run, durable, locals, pg, fb, history>>

-----------------------------------------------------------------------------
\* Bounds of the model.

\* number of process runs (the first run and the reruns)
MaxRuns == 2
\* largest number of events one batch query returns
MaxBatchEvents == 1
\* largest number of batches of the block range scanned by main
MaxBatches == 2
\* harness of queryFilterPaginated: largest fromBlock, range length, batchSize
MaxFrom == 2
MaxRange == 5
MaxBatchSize == 3
\* harness of fetchBalanceWithRetries: largest value of retries
MaxRetries == 4

\* The addresses of the model.
Pools == {"A", "B"}
\* the mint recipients in the runs of main, and in the one-pool harness
Holders == {"h1"}
HarnessHolders == {"h1", "h2"}

-----------------------------------------------------------------------------
\* Program constants.

fromBlock == 18672539
batchSize == 5000
POOL_THRESHOLD == 20000
HOLDER_THRESHOLD == 5000
lpTokenUSDValue == 5
retries == 3

-----------------------------------------------------------------------------
\* Numbers. A uint256 amount of base units is <<tok, off>>: tok * 10^18 + off,
\* with off a small signed offset. A JavaScript number is <<tok, k>>: the double
\* tok + k * ulp(tok), with k a small signed count of units in the last place.

Min(a, b) == IF a <= b THEN a ELSE b

RECURSIVE Pow2(_)
Pow2(e) == IF e <= 0 THEN 1 ELSE 2 * Pow2(e - 1)

\* exponent of the binade of n >= 1: the e with 2^e <= n < 2^(e+1)
RECURSIVE Exp2(_)
Exp2(n) == IF n < 2 THEN 0 ELSE 1 + Exp2(n \div 2)

\* n / d rounded to the nearest integer, ties to even (d > 0)
RoundDiv(n, d) ==
    LET q == n \div d
        r == n % d
    IN  IF r < d - r THEN q
        ELSE IF r > d - r THEN q + 1
        ELSE IF q % 2 = 0 THEN q ELSE q + 1

\* 1000 * 10^18 * 2^(9-52), 18 being the decimals of formatUnits: the spacing
\* of the doubles of [512, 1024), in thousandths of a base unit
UlpMilliWei512 == 113686838

\* spacing of the doubles around tok (512 <= tok < 8192), in thousandths of a
\* base unit
UlpMilliWei(tok) == UlpMilliWei512 * Pow2(Exp2(tok) - 9)

\* parseFloat(formatUnits(bn, decimals)): the double nearest to bn / 10^18
parseFloatUnits(bn) ==
    IF bn[1] = 0 THEN <<0, 0>>
    ELSE <<bn[1], RoundDiv(bn[2] * 1000, UlpMilliWei(bn[1]))>>

\* x * price in double arithmetic (the value of x is computed once)
Times(x, price) ==
    LET Product(v) ==
            IF v[1] = 0 THEN <<0, 0>>
            ELSE <<v[1] * price,
                   RoundDiv(v[2] * price,
                            Pow2(Exp2(v[1] * price) - Exp2(v[1])))>>
    IN  CHOOSE p \in {Product(v) : v \in {x}} : TRUE

\* x >= n and x > n for a double x and an integer n
GE(x, n) == x[1] > n \/ (x[1] = n /\ x[2] >= 0)
GT(x, n) == x[1] > n \/ (x[1] = n /\ x[2] > 0)

\* no value (undefined)
NoValue == <<-1, 0>>

\* totalSupply values the chain may report
SupplySet == {<<3000, 0>>, <<4000, 0>>, <<5000, 0>>}
\* balanceOf values the chain may report
BalanceSet == {<<1000, 0>>, <<1000, -1>>, <<1000, -56844>>, <<600, 0>>}

\* error codes of a failed remote read
ErrorCodes == {"ETIMEDOUT", "TIMEOUT", "CALL_EXCEPTION"}

-----------------------------------------------------------------------------
\* Sequences.

RECURSIVE SeqsUpTo(_, _)
\* the sequences over S of length at most n
SeqsUpTo(S, n) ==
    IF n = 0 THEN {<<>>}
    ELSE LET T == SeqsUpTo(S, n - 1)
         IN  T \cup {Append(t, x) : t \in {u \in T : Len(u) = n - 1}, x \in S}

Range(s) == {s[i] : i \in 1..Len(s)}

\* s.filter(x => !c.includes(x)) for an array c
RECURSIVE FilterNotIn(_, _)
FilterNotIn(s, c) ==
    IF s = <<>> THEN <<>>
    ELSE IF Head(s) \in Range(c) THEN FilterNotIn(Tail(s), c)
    ELSE <<Head(s)>> \o FilterNotIn(Tail(s), c)

\* [...new Set(s)]: a Set keeps each value once, in insertion order
RECURSIVE UniqueFrom(_, _)
UniqueFrom(s, seen) ==
    IF s = <<>> THEN <<>>
    ELSE IF Head(s) \in seen THEN UniqueFrom(Tail(s), seen)
    ELSE <<Head(s)>> \o UniqueFrom(Tail(s), seen \cup {Head(s)})

\* mutant: no deduplication
Unique_Identity(s) == s

Unique(s) == UniqueFrom(s, {})

-----------------------------------------------------------------------------
\* queryFilterPaginated. Its frame pg holds the arguments, the loop variable
\* current, the array events, and log: one entry per batch query made.

PgIdle ==
    [state |-> "idle", src |-> "none", from |-> 0, to |-> 0, batchSize |-> 1,
     current |-> 0, events |-> <<>>, log |-> <<>>]

\* the frame at the call of queryFilterPaginated(.., from, to, batchSize)
PgCall(src, from, to, size) ==
    [state |-> "running", src |-> src, from |-> from, to |-> to,
     batchSize |-> size, current |-> from, events |-> <<>>, log |-> <<>>]

\* what contract.queryFilter may return for one batch: PairCreated events are
\* given by their pair argument, Transfer events by their to argument
QueryResults(src) ==
    IF src = "factory" THEN SeqsUpTo(Pools, MaxBatchEvents)
    ELSE IF src = "lp" THEN SeqsUpTo(Holders, MaxBatchEvents)
    ELSE IF src = "lp2" THEN SeqsUpTo(HarnessHolders, MaxBatchEvents)
    ELSE {<<>>, <<"A">>, <<"B", "A">>}

\* mutant: the last batch is not clipped to toBlock
BatchEnd_Unclipped(current, size, to) == current + size - 1

\* const end = Math.min(current + batchSize - 1, toBlock)
BatchEnd(current, size, to) == Min(current + size - 1, to)

\* current += batchSize
NextCurrent(current, size) == current + size

\* mutant: a failed batch discards the events collected so far
BatchEvents_ResetOnError(events, ok, batch) ==
    IF ok THEN events \o batch ELSE <<>>

\* events.push(...batch) when the query returned, nothing when it threw
BatchEvents(events, ok, batch) == IF ok THEN events \o batch ELSE events

\* a batch query of the call threw
SomeBatchFailed(log) == \E i \in 1..Len(log) : ~log[i].ok

\* one turn of the loop: one query of the batch [start, end]
queryFilterPaginated_batch ==
    /\ pg.state = "running"
    /\ pg.current <= pg.to
    /\ LET start == pg.current
           end == BatchEnd(pg.current, pg.batchSize, pg.to)
       IN  \E ok \in BOOLEAN :
           \E batch \in (IF ok THEN QueryResults(pg.src) ELSE {<<>>}) :
              pg' = [pg EXCEPT
                       !.events = BatchEvents(@, ok, batch),
                       !.log = Append(@, [start |-> start, end |-> end,
                                          ok |-> ok, evs |-> batch]),
                       !.current = NextCurrent(@, pg.batchSize)]
    /\ UNCHANGED <<pc, run, durable, locals, fb, history>>

\* the loop condition fails: return events
queryFilterPaginated_return ==
    /\ pg.state = "running"
    /\ ~(pg.current <= pg.to)
    /\ pg' = [pg EXCEPT !.state = "returned"]
    /\ UNCHANGED <<pc, run, durable, locals, fb, history>>

-----------------------------------------------------------------------------
\* fetchBalanceWithRetries. Its frame fb holds the argument retries, the loop
\* variable attempt, the value returned or the error thrown, and as history
\* the number of balanceOf calls, the number of sleeps, the codes of the
\* failed attempts and the value of the balanceOf call that succeeded.

FbIdle ==
    [state |-> "idle", retries |-> 0, attempt |-> 0, result |-> NoValue,
     error |-> "none", calls |-> 0, pauses |-> 0, fails |-> <<>>,
     got |-> NoValue]

\* the frame at the call of fetchBalanceWithRetries(.., address, n, delayMs)
FbCall(n) ==
    [state |-> "running", retries |-> n, attempt |-> 1, result |-> NoValue,
     error |-> "none", calls |-> 0, pauses |-> 0, fails |-> <<>>,
     got |-> NoValue]

\* error.code === 'ETIMEDOUT' || error.code === 'TIMEOUT'
IsTimeout(code) == code = "ETIMEDOUT" \/ code = "TIMEOUT"

\* mutant: one more pause is made after the last attempt
AttemptsLeft_OneMore(attempt, n) == attempt < n + 1

\* mutant: the last attempt is never made
AttemptsLeft_OneLess(attempt, n) == attempt < n - 1

\* if (attempt < retries) sleep, else throw
AttemptsLeft(attempt, n) == attempt < n

\* return balanceBN
ReturnValue(balanceBN) == balanceBN

\* one attempt: lpContract.balanceOf(address) returns or throws
fetchBalanceWithRetries_attempt ==
    /\ fb.state = "running"
    /\ fb.attempt <= fb.retries
    /\ \/ \E b \in BalanceSet :
            fb' = [fb EXCEPT !.state = "returned", !.result = ReturnValue(b),
                             !.got = b, !.calls = @ + 1]
       \/ \E code \in ErrorCodes :
            fb' = [fb EXCEPT
                     !.calls = @ + 1,
                     !.fails = Append(@, code),
                     !.state = IF IsTimeout(code)
                                  /\ AttemptsLeft(fb.attempt, fb.retries)
                               THEN "sleeping" ELSE "threw",
                     !.error = IF IsTimeout(code)
                                  /\ AttemptsLeft(fb.attempt, fb.retries)
                               THEN "none" ELSE code]
    /\ UNCHANGED <<pc, run, durable, locals, pg, history>>

\* await sleep(delayMs), then attempt++
fetchBalanceWithRetries_sleep ==
    /\ fb.state = "sleeping"
    /\ fb' = [fb EXCEPT !.state = "running", !.attempt = @ + 1,
                        !.pauses = @ + 1]
    /\ UNCHANGED <<pc, run, durable, locals, pg, history>>

\* the loop ends without a return or a throw (retries < 1): undefined
fetchBalanceWithRetries_fallthrough ==
    /\ fb.state = "running"
    /\ ~(fb.attempt <= fb.retries)
    /\ fb' = [fb EXCEPT !.state = "returned", !.result = NoValue]
    /\ UNCHANGED <<pc, run, durable, locals, pg, history>>

-----------------------------------------------------------------------------
\* The two files. checkpoint.json is absent, holds text that is no JSON
\* ("garbage"), holds JSON that is no array ("nonarray": an object, a number,
\* null) or holds a JSON array of addresses. lp_qualifiers.csv is absent or a
\* sequence of lines.

CkptFile(kind, items) == [kind |-> kind, items |-> items]

\* the JavaScript value of the checkpoint: an array, or a value that is none
CkptValue(kind, items) == [kind |-> kind, items |-> items]

HeaderLine == [kind |-> "header", lp |-> "", holder |-> "",
               balance |-> NoValue, value |-> NoValue]

\* the line `${lpAddress},${holderAddress},${balance},${holdingValue}`
RowLine(record) == [kind |-> "row", lp |-> record.lpAddress,
                    holder |-> record.holderAddress,
                    balance |-> record.balance, value |-> record.holdingValue]

BlankLine == [kind |-> "blank", lp |-> "", holder |-> "",
              balance |-> NoValue, value |-> NoValue]

\* records.map(...).join("\n") + "\n", as lines: one line per record, and a
\* single empty line when there is no record
Rows(records) ==
    IF records = <<>> THEN <<BlankLine>>
    ELSE [i \in 1..Len(records) |-> RowLine(records[i])]

\* mutant: a parse error is not caught (the file's text is taken as it is)
loadCheckpoint_NoCatch(file) ==
    IF file.kind = "absent" THEN CkptValue("array", <<>>)
    ELSE IF file.kind = "garbage" THEN CkptValue("nonarray", <<>>)
    ELSE CkptValue(file.kind, file.items)

\* mutant: the checkpoint file is not read (every run starts from an empty
\* checkpoint)
loadCheckpoint_AlwaysFresh(file) == CkptValue("array", <<>>)

\* loadCheckpoint(filename)
loadCheckpoint(file) ==
    IF file.kind = "absent" THEN CkptValue("array", <<>>)
    ELSE IF file.kind = "garbage" THEN CkptValue("array", <<>>)
    ELSE CkptValue(file.kind, file.items)

\* mutant: only the address pushed last is written
saveCheckpoint_LastOnly(value) ==
    CkptFile(value.kind, SubSeq(value.items, Len(value.items),
                                Len(value.items)))

\* saveCheckpoint(filename, checkpoint): JSON.stringify(checkpoint, null, 2)
saveCheckpoint(value) == CkptFile(value.kind, value.items)

\* mutant: the address is pushed twice
Push_Twice(value, addr) == [value EXCEPT !.items = Append(Append(@, addr), addr)]

\* mutant: the address is not pushed before the checkpoint is saved
Push_Forgotten(value, addr) == value

\* checkpoint.push(lpAddress)
Push(value, addr) == [value EXCEPT !.items = Append(@, addr)]

\* mutant: the header is written (and the file truncated) on every call
WithHeader_Always(file) == [exists |-> TRUE, lines |-> <<HeaderLine>>]

\* if (!fs.existsSync(filename)) writeFileSync(filename, header)
WithHeader(file) ==
    IF file.exists THEN file ELSE [exists |-> TRUE, lines |-> <<HeaderLine>>]

\* fs.appendFileSync(filename, rows)
AppendRows(file, records) ==
    [exists |-> TRUE, lines |-> file.lines \o Rows(records)]

-----------------------------------------------------------------------------
\* The pure functions of the pipeline.

\* mutant: the pair addresses are not deduplicated
getLPPairAddresses_NoDedup(logs) == logs

\* getLPPairAddresses / getLPHolders: [...new Set(logs.map(log => log.args.x))]
getLPPairAddresses(logs) == Unique(logs)
getLPHolders(logs) == Unique(logs)

\* getLiquidityPoolValue: totalSupply * lpTokenUSDValue, 0 when the read throws
getLiquidityPoolValue(ok, totalSupplyBN) ==
    IF ok THEN Times(parseFloatUnits(totalSupplyBN), lpTokenUSDValue)
    ELSE <<0, 0>>

\* main: if (poolValue >= 20000) { ...; continue; }
SkipsPool(value) == GE(value, POOL_THRESHOLD)

\* mutant: the comparison is strict
Qualifies_Strict(holdingValue) == GT(holdingValue, HOLDER_THRESHOLD)

\* checkLPHolderValue: if (holdingValue >= 5000)
Qualifies(holdingValue) == GE(holdingValue, HOLDER_THRESHOLD)

\* checkLPHolderValue: the record pushed for a holder
Record(lp, addr, balanceBN) ==
    [lpAddress |-> lp, holderAddress |-> addr,
     balance |-> parseFloatUnits(balanceBN),
     holdingValue |-> Times(parseFloatUnits(balanceBN), lpTokenUSDValue)]

\* mutant: a record is put in front of the records collected so far
PushRecord_Front(records, record) == <<record>> \o records

\* checkLPHolderValue: qualifyingHolders.push({...})
PushRecord(records, record) == Append(records, record)

\* mutant: the records are never appended to the output
AfterCheck_NeverAppend(records) == "save"

\* main: if (qualifyingHolders.length > 0) appendRecordsToCSV(...), then the
\* end of the loop body
AfterCheck(records) == IF records # <<>> THEN "append" ELSE "save"

\* mutant: the process exits with code 0 also when main rejects
ProcessExit_AlwaysZero(resolved) == "exit0"

\* main().then(() => process.exit(0)).catch(error => process.exit(1))
ProcessExit(resolved) == IF resolved THEN "exit0" ELSE "exit1"

\* mutant: the pairs are not filtered against the checkpoint
PairsToProcess_Unfiltered(pairs, value) == pairs

\* main: lpPairAddresses.filter(addr => !checkpoint.includes(addr))
PairsToProcess(pairs, value) == FilterNotIn(pairs, value.items)

\* the chain heights provider.getBlockNumber() may report: below fromBlock,
\* and MaxBatches batches of which the last holds one block
LatestBlocks == {fromBlock - 1, fromBlock + (MaxBatches - 1) * batchSize}

-----------------------------------------------------------------------------
\* main.

NoCsv == [exists |-> FALSE, lines |-> <<>>]

NoCheck == [holder |-> "", balanceBN |-> NoValue]

\* the checkpoint files a first run may find
InitCkptFiles ==
    {CkptFile("absent", <<>>), CkptFile("garbage", <<>>),
     CkptFile("nonarray", <<>>), CkptFile("array", <<"A">>)}

\* the memory of a process that has not run yet
FreshMemory ==
    /\ toBlock' = 0
    /\ checkpoint' = CkptValue("array", <<>>)
    /\ lpPairAddresses' = <<>>
    /\ lpPairsToProcess' = <<>>
    /\ idx' = 0
    /\ poolValue' = NoValue
    /\ holders' = <<>>
    /\ hIdx' = 0
    /\ qualifyingHolders' = <<>>
    /\ pg' = PgIdle
    /\ fb' = FbIdle
    /\ loaded' = CkptValue("array", <<>>)
    /\ loadedFrom' = "none"
    /\ ops' = {}
    /\ csv0' = <<>>
    /\ finished' = {}
    /\ errored' = {}
    /\ lastCheck' = NoCheck
    /\ failedReads' = <<>>
    /\ lostBatch' = FALSE

Init ==
    /\ pc = "start"
    /\ run = 1
    /\ ckptFile \in InitCkptFiles
    /\ csvFile = NoCsv
    /\ toBlock = 0
    /\ checkpoint = CkptValue("array", <<>>)
    /\ lpPairAddresses = <<>>
    /\ lpPairsToProcess = <<>>
    /\ idx = 0
    /\ poolValue = NoValue
    /\ holders = <<>>
    /\ hIdx = 0
    /\ qualifyingHolders = <<>>
    /\ pg = PgIdle
    /\ fb = FbIdle
    /\ loaded = CkptValue("array", <<>>)
    /\ loadedFrom = "none"
    /\ ops = {}
    /\ csv0 = <<>>
    /\ finished = {}
    /\ errored = {}
    /\ lastCheck = NoCheck
    /\ failedReads = <<>>
    /\ lostBatch = FALSE

\* for (const lpAddress of lpPairsToProcess)
lpAddress == lpPairsToProcess[idx]

\* the loop of main moves to the pool at index i, or main returns and the
\* process exits with code 0
GoToPool(list, i) ==
    /\ idx' = i
    /\ pc' = IF i > Len(list) THEN ProcessExit(TRUE) ELSE "value"
    /\ poolValue' = NoValue
    /\ holders' = <<>>
    /\ hIdx' = 0
    /\ qualifyingHolders' = <<>>
    /\ lastCheck' = NoCheck
    /\ failedReads' = <<>>
    /\ pg' = PgIdle
    /\ fb' = FbIdle
    /\ UNCHANGED lostBatch

\* const latestBlock = await provider.getBlockNumber()
main_getBlockNumber ==
    /\ pc = "start"
    /\ \/ \E latest \in LatestBlocks :
            /\ toBlock' = latest
            /\ pc' = "load"
       \/ /\ pc' = ProcessExit(FALSE)
          /\ UNCHANGED toBlock
    /\ csv0' = csvFile.lines
    /\ UNCHANGED <<run, durable, checkpoint, lpPairAddresses,
                   lpPairsToProcess, idx, poolValue, holders, hIdx,
                   qualifyingHolders, pg, fb, loaded, loadedFrom, ops,
                   finished, errored, lastCheck, failedReads,
                   lostBatch>>

\* let checkpoint = loadCheckpoint(...); then the call of getLPPairAddresses
main_loadCheckpoint ==
    /\ pc = "load"
    /\ checkpoint' = loadCheckpoint(ckptFile)
    /\ loaded' = loadCheckpoint(ckptFile)
    /\ loadedFrom' = ckptFile.kind
    /\ pg' = PgCall("factory", fromBlock, toBlock, batchSize)
    /\ pc' = "pairs"
    /\ UNCHANGED <<run, durable, toBlock, lpPairAddresses, lpPairsToProcess,
                   idx, poolValue, holders, hIdx, qualifyingHolders, fb, ops,
                   csv0, finished, errored, lastCheck, failedReads,
                   lostBatch>>

\* getLPPairAddresses returns; main filters the pairs against the checkpoint
\* (checkpoint.includes throws when the checkpoint is no array) and enters
\* the loop
main_getLPPairAddresses ==
    /\ pc = "pairs"
    /\ pg.state = "returned"
    /\ lpPairAddresses' = getLPPairAddresses(pg.events)
    /\ IF checkpoint.kind # "array" /\ lpPairAddresses' # <<>>
       THEN /\ pc' = ProcessExit(FALSE)
            /\ pg' = PgIdle
            /\ UNCHANGED <<lpPairsToProcess, idx, poolValue, holders, hIdx,
                           qualifyingHolders, fb, lastCheck, failedReads,
                           lostBatch>>
       ELSE /\ lpPairsToProcess' = PairsToProcess(lpPairAddresses', checkpoint)
            /\ GoToPool(lpPairsToProcess', 1)
    /\ UNCHANGED <<run, durable, toBlock, checkpoint, loaded, loadedFrom, ops,
                   csv0, finished, errored>>

\* const poolValue = await getLiquidityPoolValue(lpAddress), then the gate
main_getLiquidityPoolValue ==
    /\ pc = "value"
    /\ \E ok \in BOOLEAN :
       \E supply \in (IF ok THEN SupplySet ELSE {NoValue}) :
          /\ poolValue' = getLiquidityPoolValue(ok, supply)
          /\ IF SkipsPool(poolValue')
             THEN /\ pc' = "skip"
                  /\ ops' = ops \cup {<<lpAddress, "value">>}
                  /\ UNCHANGED pg
             ELSE /\ pc' = "holders"
                  /\ ops' = ops \cup {<<lpAddress, "value">>,
                                      <<lpAddress, "holders">>}
                  /\ pg' = PgCall("lp", fromBlock, toBlock, batchSize)
    /\ UNCHANGED <<run, durable, toBlock, checkpoint, lpPairAddresses,
                   lpPairsToProcess, idx, holders, hIdx, qualifyingHolders,
                   fb, loaded, loadedFrom, csv0, finished, errored,
                   lastCheck, failedReads>>
    /\ lostBatch' = FALSE

\* checkpoint.push(lpAddress); saveCheckpoint(...): the write succeeds, or it
\* throws and the catch of the loop body logs the error
PushAndSave ==
    /\ checkpoint' = Push(checkpoint, lpAddress)
    /\ \/ /\ ckptFile' = saveCheckpoint(checkpoint')
          /\ finished' = finished \cup {lpAddress}
          /\ ops' = ops \cup {<<lpAddress, "checkpoint">>}
          /\ UNCHANGED errored
       \/ /\ errored' = errored \cup {lpAddress}
          /\ UNCHANGED <<ckptFile, finished, ops>>
    /\ GoToPool(lpPairsToProcess, idx + 1)
    /\ UNCHANGED <<run, csvFile, toBlock, lpPairAddresses, lpPairsToProcess,
                   loaded, loadedFrom, csv0>>

\* the branch of the gate that skips the pool (lines 235-239)
main_skip ==
    /\ pc = "skip"
    /\ PushAndSave

\* getLPHolders returns; checkLPHolderValue starts with the first holder
main_getLPHolders ==
    /\ pc = "holders"
    /\ pg.state = "returned"
    /\ holders' = getLPHolders(pg.events)
    /\ pg' = PgIdle
    /\ qualifyingHolders' = <<>>
    /\ lastCheck' = NoCheck
    /\ failedReads' = <<>>
    /\ lostBatch' = SomeBatchFailed(pg.log)
    /\ IF holders' = <<>>
       THEN /\ pc' = "save"
            /\ hIdx' = 0
            /\ UNCHANGED <<fb, ops>>
       ELSE /\ pc' = "check"
            /\ hIdx' = 1
            /\ fb' = FbCall(retries)
            /\ ops' = ops \cup {<<lpAddress, "balance">>}
    /\ UNCHANGED <<run, durable, toBlock, checkpoint, lpPairAddresses,
                   lpPairsToProcess, idx, poolValue, loaded, loadedFrom, csv0,
                   finished, errored>>

\* checkLPHolderValue: fetchBalanceWithRetries has returned or thrown for
\* holders[hIdx]; the holder is pushed or not, and the loop goes on
checkLPHolderValue_holder ==
    /\ pc = "check"
    /\ fb.state \in {"returned", "threw"}
    /\ LET read == fb.state = "returned" /\ fb.result # NoValue
           rec == Record(lpAddress, holders[hIdx], fb.result)
       IN  /\ qualifyingHolders' =
                IF read /\ Qualifies(rec.holdingValue)
                THEN PushRecord(qualifyingHolders, rec) ELSE qualifyingHolders
           /\ failedReads' =
                IF read THEN failedReads
                ELSE Append(failedReads, holders[hIdx])
           /\ lastCheck' =
                IF read
                THEN [holder |-> holders[hIdx], balanceBN |-> fb.result]
                ELSE lastCheck
    /\ IF hIdx < Len(holders)
       THEN /\ hIdx' = hIdx + 1
            /\ fb' = FbCall(retries)
            /\ UNCHANGED pc
       ELSE /\ hIdx' = hIdx + 1
            /\ fb' = FbIdle
            /\ pc' = AfterCheck(qualifyingHolders')
    /\ UNCHANGED <<run, durable, toBlock, checkpoint, lpPairAddresses,
                   lpPairsToProcess, idx, poolValue, holders, pg, loaded,
                   loadedFrom, ops, csv0, finished, errored, lostBatch>>

\* mutant: the error of a pool is not caught in the loop, main rejects
CatchPoolError_Abort ==
    /\ errored' = errored \cup {lpAddress}
    /\ pc' = ProcessExit(FALSE)
    /\ UNCHANGED <<idx, poolValue, holders, hIdx, qualifyingHolders,
                   lastCheck, failedReads, lostBatch, pg, fb>>

\* the catch of the loop body: the error is logged, the loop goes on
CatchPoolError ==
    /\ errored' = errored \cup {lpAddress}
    /\ GoToPool(lpPairsToProcess, idx + 1)

\* appendRecordsToCSV: the header is written when the file does not exist
appendRecordsToCSV_header ==
    /\ pc = "append"
    /\ \/ /\ csvFile' = WithHeader(csvFile)
          /\ pc' = "rows"
          /\ UNCHANGED <<idx, poolValue, holders, hIdx, qualifyingHolders, pg,
                         fb, errored, lastCheck, failedReads,
                         lostBatch>>
       \/ /\ ~csvFile.exists
          /\ CatchPoolError
          /\ UNCHANGED csvFile
    /\ UNCHANGED <<run, ckptFile, toBlock, checkpoint, lpPairAddresses,
                   lpPairsToProcess, loaded, loadedFrom, ops, csv0, finished>>

\* appendRecordsToCSV: fs.appendFileSync(filename, rows)
appendRecordsToCSV_rows ==
    /\ pc = "rows"
    /\ \/ /\ csvFile' = AppendRows(csvFile, qualifyingHolders)
          /\ ops' = ops \cup {<<lpAddress, "append">>}
          /\ pc' = "save"
          /\ UNCHANGED <<idx, poolValue, holders, hIdx, qualifyingHolders, pg,
                         fb, errored, lastCheck, failedReads,
                         lostBatch>>
       \/ /\ CatchPoolError
          /\ UNCHANGED <<csvFile, ops>>
    /\ UNCHANGED <<run, ckptFile, toBlock, checkpoint, lpPairAddresses,
                   lpPairsToProcess, loaded, loadedFrom, csv0, finished>>

\* the end of the loop body (lines 257-259)
main_save ==
    /\ pc = "save"
    /\ PushAndSave

\* the process is killed: its memory is lost, the files stay
Kill ==
    /\ pc \in {"start", "load", "pairs", "value", "skip", "holders", "check",
               "append", "rows", "save"}
    /\ pc' = "killed"
    /\ FreshMemory
    /\ UNCHANGED <<run, durable>>

\* the script is run again
Restart ==
    /\ pc \in {"exit0", "exit1", "killed"}
    /\ run < MaxRuns
    /\ run' = run + 1
    /\ pc' = "start"
    /\ FreshMemory
    /\ UNCHANGED durable

Next ==
    \/ main_getBlockNumber
    \/ main_loadCheckpoint
    \/ queryFilterPaginated_batch
    \/ queryFilterPaginated_return
    \/ main_getLPPairAddresses
    \/ main_getLiquidityPoolValue
    \/ main_skip
    \/ main_getLPHolders
    \/ fetchBalanceWithRetries_attempt
    \/ fetchBalanceWithRetries_sleep
    \/ checkLPHolderValue_holder
    \/ appendRecordsToCSV_header
    \/ appendRecordsToCSV_rows
    \/ main_save
    \/ Kill
    \/ Restart

Spec == Init /\ [][Next]_vars

-----------------------------------------------------------------------------
\* queryFilterPaginated, getLPPairAddresses and getLPHolders on their own:
\* every range [from, to] and every batchSize >= 1 within the bounds.

\* everything but the frame pg is as in a fresh process
IdleButPg ==
    /\ run = 1
    /\ ckptFile = CkptFile("absent", <<>>)
    /\ csvFile = NoCsv
    /\ toBlock = 0
    /\ checkpoint = CkptValue("array", <<>>)
    /\ lpPairAddresses = <<>>
    /\ lpPairsToProcess = <<>>
    /\ idx = 0
    /\ poolValue = NoValue
    /\ holders = <<>>
    /\ hIdx = 0
    /\ qualifyingHolders = <<>>
    /\ loaded = CkptValue("array", <<>>)
    /\ loadedFrom = "none"
    /\ ops = {}
    /\ csv0 = <<>>
    /\ finished = {}
    /\ errored = {}
    /\ lastCheck = NoCheck
    /\ failedReads = <<>>
    /\ lostBatch = FALSE

InitPag ==
    /\ pc = "paginate"
    /\ \E from \in 0..MaxFrom, len \in 0..MaxRange, size \in 1..MaxBatchSize :
          pg = PgCall("harness", from, from + len - 1, size)
    /\ fb = FbIdle
    /\ IdleButPg

\* the callers of queryFilterPaginated map and deduplicate its result
discover ==
    /\ pc = "paginate"
    /\ pg.state = "returned"
    /\ lpPairAddresses' = getLPPairAddresses(pg.events)
    /\ holders' = getLPHolders(pg.events)
    /\ pc' = "discovered"
    /\ UNCHANGED <<run, durable, toBlock, checkpoint, lpPairsToProcess, idx,
                   poolValue, hIdx, qualifyingHolders, pg, fb, history>>

NextPag ==
    \/ queryFilterPaginated_batch
    \/ queryFilterPaginated_return
    \/ discover

SpecPag == InitPag /\ [][NextPag]_vars

-----------------------------------------------------------------------------
\* fetchBalanceWithRetries on its own: every value of retries within the bound.

InitRetry ==
    /\ pc = "fetch"
    /\ \E n \in 0..MaxRetries : fb = FbCall(n)
    /\ pg = PgIdle
    /\ IdleButPg

NextRetry ==
    \/ fetchBalanceWithRetries_attempt
    \/ fetchBalanceWithRetries_sleep
    \/ fetchBalanceWithRetries_fallthrough

SpecRetry == InitRetry /\ [][NextRetry]_vars

-----------------------------------------------------------------------------
\* The processing of one pool that passed the gate, from the call of
\* getLPHolders to the end of the loop body, with two mint recipients and
\* with the output files earlier runs may have left.

\* output files of earlier runs
EarlierCsv ==
    {NoCsv,
     [exists |-> TRUE, lines |-> <<>>],
     [exists |-> TRUE, lines |-> <<HeaderLine>>],
     [exists |-> TRUE,
      lines |-> <<HeaderLine,
                  RowLine(Record("B", "h2", <<1000, 0>>)),
                  RowLine(Record("A", "h1", <<1000, 0>>))>>]}

InitPool ==
    /\ pc = "holders"
    /\ run = 1
    /\ ckptFile \in {CkptFile("absent", <<>>), CkptFile("array", <<"B">>)}
    /\ csvFile \in EarlierCsv
    /\ toBlock = fromBlock + (MaxBatches - 1) * batchSize
    /\ checkpoint = loadCheckpoint(ckptFile)
    /\ loaded = loadCheckpoint(ckptFile)
    /\ loadedFrom = ckptFile.kind
    /\ lpPairAddresses = <<"A">>
    /\ lpPairsToProcess = <<"A">>
    /\ idx = 1
    /\ poolValue = getLiquidityPoolValue(TRUE, <<3000, 0>>)
    /\ holders = <<>>
    /\ hIdx = 0
    /\ qualifyingHolders = <<>>
    /\ pg = PgCall("lp2", fromBlock, toBlock, batchSize)
    /\ fb = FbIdle
    /\ ops = {<<"A", "value">>, <<"A", "holders">>}
    /\ csv0 = csvFile.lines
    /\ finished = {}
    /\ errored = {}
    /\ lastCheck = NoCheck
    /\ failedReads = <<>>
    /\ lostBatch = FALSE

NextPool ==
    \/ queryFilterPaginated_batch
    \/ queryFilterPaginated_return
    \/ main_getLPHolders
    \/ fetchBalanceWithRetries_attempt
    \/ fetchBalanceWithRetries_sleep
    \/ checkLPHolderValue_holder
    \/ appendRecordsToCSV_header
    \/ appendRecordsToCSV_rows
    \/ main_save

SpecPool == InitPool /\ [][NextPool]_vars

-----------------------------------------------------------------------------
\* One run of the process that is not killed, in which every step that can
\* be taken is taken in the end: every remote read returns or fails, every
\* sleep ends.

NextRun ==
    \/ main_getBlockNumber
    \/ main_loadCheckpoint
    \/ queryFilterPaginated_batch
    \/ queryFilterPaginated_return
    \/ main_getLPPairAddresses
    \/ main_getLiquidityPoolValue
    \/ main_skip
    \/ main_getLPHolders
    \/ fetchBalanceWithRetries_attempt
    \/ fetchBalanceWithRetries_sleep
    \/ checkLPHolderValue_holder
    \/ appendRecordsToCSV_header
    \/ appendRecordsToCSV_rows
    \/ main_save

SpecRun == Init /\ [][NextRun]_vars /\ WF_vars(NextRun)

-----------------------------------------------------------------------------
\* Properties.

\* main is working on the pool lpAddress
AtPool == pc \in {"value", "skip", "holders", "check", "append", "rows", "save"}

\* main is past the gate of the pool lpAddress
PastGate == pc \in {"skip", "holders", "check", "append", "rows", "save"}

\* the number of elements of s equal to x
Count(s, x) == Cardinality({i \in 1..Len(s) : s[i] = x})

\* the lines of the output that belong to pool p, in their order
RECURSIVE LinesOf(_, _)
LinesOf(lines, p) ==
    IF lines = <<>> THEN <<>>
    ELSE IF Head(lines).lp = p THEN <<Head(lines)>> \o LinesOf(Tail(lines), p)
    ELSE LinesOf(Tail(lines), p)

IsPrefix(s, t) == Len(s) <= Len(t) /\ \A i \in 1..Len(s) : s[i] = t[i]

OpKinds == {"value", "holders", "balance", "append", "checkpoint"}

\* C1: a pool past the valuation gate went to holder discovery if and only if
\* its value is greater than POOL_THRESHOLD; a pool whose value is not greater
\* gets no holder discovery.
C1_HolderDiscoveryIffAboveThreshold ==
    PastGate =>
        (<<lpAddress, "holders">> \in ops <=> GT(poolValue, POOL_THRESHOLD))

\* C2: for a pool P of the checkpoint loaded at the start of the run, the run
\* performs no valuation, holder discovery, balance read, output append or
\* checkpoint change for P, and the output lines of P stay as they were.
C2_CheckpointedPoolUntouched ==
    \A p \in Pools :
        (loaded.kind = "array" /\ p \in Range(loaded.items)) =>
            /\ \A op \in OpKinds : <<p, op>> \notin ops
            /\ p \notin finished \cup errored
            /\ p \notin Range(lpPairsToProcess)
            /\ Count(checkpoint.items, p) = Count(loaded.items, p)
            /\ ckptFile.kind = "array"
            /\ Count(ckptFile.items, p) = Count(loaded.items, p)
            /\ LinesOf(csvFile.lines, p) = LinesOf(csv0, p)

\* C2 witness: the factory emitted events for the checkpointed pool A, and the
\* run ended after processing the other pool, with output for it.
C2_Witness ==
    /\ pc = "exit0"
    /\ "A" \in Range(loaded.items)
    /\ "A" \in Range(lpPairAddresses)
    /\ "B" \in finished
    /\ <<"B", "append">> \in ops

\* C3: at every point of a run (so wherever the process is killed), every pool
\* whose processing ran to its end is in the checkpoint file, and of the pools
\* the loop has reached only the one in flight and those whose processing
\* raised an error can be missing from it.
C3_CompletedPoolsAreDurable ==
    /\ finished # {} => ckptFile.kind = "array"
    /\ finished \subseteq Range(ckptFile.items)
    /\ (AtPool \/ pc = "exit0") =>
          \A i \in 1..Len(lpPairsToProcess) :
              i < idx => \/ lpPairsToProcess[i] \in Range(ckptFile.items)
                         \/ lpPairsToProcess[i] \in errored

\* C3 witness: the second pool is in flight, the first one went through holder
\* processing and is in the file.
C3_Witness ==
    /\ pc = "check"
    /\ idx = 2
    /\ <<lpPairsToProcess[1], "append">> \in ops
    /\ lpPairsToProcess[1] \in Range(ckptFile.items)

\* the holder h has a record in qualifyingHolders
HasRecord(h) ==
    \E i \in 1..Len(qualifyingHolders) : qualifyingHolders[i].holderAddress = h

\* C4: the holder whose balance checkLPHolderValue read last has a record if
\* and only if balance * pricePerToken >= HOLDER_THRESHOLD; at a holding value
\* of exactly 5000 it has one, at the next value below 5000 it has none.
C4_RecordIffAtLeastHolderThreshold ==
    lastCheck # NoCheck =>
        LET balance == parseFloatUnits(lastCheck.balanceBN)
            holdingValue == Times(balance, lpTokenUSDValue)
        IN  /\ HasRecord(lastCheck.holder) <=>
                 (holdingValue[1] > 5000
                    \/ (holdingValue[1] = 5000 /\ holdingValue[2] >= 0))
            /\ holdingValue = <<5000, 0>> => HasRecord(lastCheck.holder)
            /\ holdingValue = <<5000, -1>> => ~HasRecord(lastCheck.holder)

\* C4 witness: the first holder was included at a holding value of exactly
\* 5000, the second one was read one unit below and is excluded.
C4_Witness ==
    /\ Len(qualifyingHolders) = 1
    /\ qualifyingHolders[1].holdingValue = <<5000, 0>>
    /\ lastCheck.holder # qualifyingHolders[1].holderAddress
    /\ Times(parseFloatUnits(lastCheck.balanceBN), lpTokenUSDValue) = <<5000, -1>>

\* C5: the batches queried tile [from, to]: the first starts at from, each
\* next one starts at the previous end + 1, each holds between 1 and batchSize
\* blocks and ends at most at to, and when the function returns for a range
\* with to >= from the last one ends at to.
C5_BatchesTileTheRange ==
    LET log == pg.log
    IN  /\ \A i \in 1..Len(log) :
              /\ log[i].start = (IF i = 1 THEN pg.from ELSE log[i - 1].end + 1)
              /\ log[i].start <= log[i].end
              /\ log[i].end - log[i].start + 1 <= pg.batchSize
              /\ log[i].end <= pg.to
        /\ (pg.state = "returned" /\ pg.to >= pg.from) =>
              /\ Len(log) >= 1
              /\ log[Len(log)].end = pg.to

\* C5 witness: a returned call with three batches, the last one clipped.
C5_Witness ==
    /\ pg.state = "returned"
    /\ Len(pg.log) = 3
    /\ pg.log[3].end - pg.log[3].start + 1 < pg.batchSize
    /\ pg.log[3].end = pg.to

\* the timeout-class error codes
TimeoutCodes == {"ETIMEDOUT", "TIMEOUT"}

\* C6: after N timeout-class failures (N < retries) and a success the call
\* returns the value of the successful read after exactly N pauses, and it
\* does not give up while N < retries; when the first failure is not
\* timeout-class the call throws that error after one read and no pause.
C6_RetryOnTimeoutOnly ==
    /\ (fb.state = "returned" /\ fb.got # NoValue) =>
          /\ fb.result = fb.got
          /\ \A i \in 1..Len(fb.fails) : fb.fails[i] \in TimeoutCodes
          /\ Len(fb.fails) < fb.retries
          /\ fb.pauses = Len(fb.fails)
          /\ fb.calls = Len(fb.fails) + 1
    /\ (fb.state = "threw" /\ \A i \in 1..Len(fb.fails) :
                                  fb.fails[i] \in TimeoutCodes) =>
          Len(fb.fails) >= fb.retries
    /\ (fb.fails # <<>> /\ fb.fails[1] \notin TimeoutCodes) =>
          /\ fb.state = "threw"
          /\ fb.error = fb.fails[1]
          /\ fb.pauses = 0
          /\ fb.calls = 1

\* C6 witness: two timeouts of both codes, then a success.
C6_Witness ==
    /\ fb.state = "returned"
    /\ fb.fails = <<"ETIMEDOUT", "TIMEOUT">>
    /\ fb.result = <<1000, 0>>
    /\ fb.pauses = 2

\* the events of the batches of log that succeeded, in batch order
RECURSIVE EventsOf(_)
EventsOf(log) ==
    IF log = <<>> THEN <<>>
    ELSE (IF Head(log).ok THEN Head(log).evs ELSE <<>>) \o EventsOf(Tail(log))

\* C7: every batch is queried exactly once, a failed batch adds no event and
\* does not stop the later batches, and events is the concatenation, in batch
\* order, of the events of the batches that succeeded.
C7_FailedBatchIsSkipped ==
    /\ pg.events = EventsOf(pg.log)
    /\ \A i, j \in 1..Len(pg.log) : i < j => pg.log[i].start < pg.log[j].start
    /\ (pg.state = "returned" /\ pg.to >= pg.from) =>
          \E i \in 1..Len(pg.log) : pg.log[i].start <= pg.to
                                    /\ pg.to <= pg.log[i].end
    /\ pg.state = "running" =>
          (pg.current = IF pg.log = <<>> THEN pg.from
                        ELSE pg.log[Len(pg.log)].end + 1)
             \/ pg.log[Len(pg.log)].end = pg.to

\* C7 witness: a batch with events, a failed batch, a batch with events.
C7_Witness ==
    /\ pg.state = "returned"
    /\ Len(pg.log) = 3
    /\ pg.log[1].ok /\ pg.log[1].evs = <<"B", "A">>
    /\ ~pg.log[2].ok
    /\ pg.log[3].ok /\ pg.log[3].evs = <<"A">>
    /\ pg.events = <<"B", "A", "A">>

\* the index of the first occurrence of x in s
FirstIndex(s, x) == CHOOSE i \in 1..Len(s) :
                        s[i] = x /\ \A j \in 1..(i - 1) : s[j] # x

\* r holds every element of s once, in the order of first occurrence in s
FirstSeenOrder(r, s) ==
    /\ Range(r) = Range(s)
    /\ \A i, j \in 1..Len(r) : i < j => r[i] # r[j]
    /\ \A i, j \in 1..Len(r) : i < j => FirstIndex(s, r[i]) < FirstIndex(s, r[j])

\* C8: getLPPairAddresses and getLPHolders return every address of the fetched
\* events, each once, in the order of first occurrence.
C8_UniqueInFirstSeenOrder ==
    pc = "discovered" =>
        /\ FirstSeenOrder(lpPairAddresses, pg.events)
        /\ FirstSeenOrder(holders, pg.events)

\* C8 witness: the events B, A, A, B, A give B, A.
C8_Witness ==
    /\ pc = "discovered"
    /\ pg.events = <<"B", "A", "A", "B", "A">>
    /\ lpPairAddresses = <<"B", "A">>
    /\ holders = <<"B", "A">>

\* C9: a checkpoint file that is absent or no JSON loads as the empty array,
\* the run does not abort on it, every discovered pool is to be processed,
\* and a run that reaches its end has visited every discovered pool.
C9_MissingOrInvalidCheckpointIsEmpty ==
    loadedFrom \in {"absent", "garbage"} =>
        /\ loaded = CkptValue("array", <<>>)
        /\ checkpoint.kind = "array"
        /\ pc # "exit1"
        /\ (AtPool \/ pc = "exit0") => lpPairsToProcess = lpPairAddresses
        /\ pc = "exit0" =>
              \A p \in Range(lpPairAddresses) :
                  <<p, "value">> \in ops /\ p \in finished \cup errored

\* C9 witness: the file was no JSON, both pools were discovered and the run
\* ended with both processed.
C9_Witness ==
    /\ loadedFrom = "garbage"
    /\ pc = "exit0"
    /\ Len(lpPairAddresses) = 2
    /\ finished = Pools

\* C10: a step writes the header only to an absent output file, appends one
\* line per record in the order of the records, and leaves the earlier
\* content of the file as a prefix of the new content.
C10_AppendOnlyOutput ==
    [][/\ IsPrefix(csvFile.lines, csvFile'.lines)
       /\ csvFile.exists => csvFile'.exists
       /\ IsPrefix(csv0, csvFile.lines) => IsPrefix(csv0', csvFile'.lines)
       /\ (pc = "append" /\ pc' = "rows") =>
             csvFile'.lines = (IF csvFile.exists THEN csvFile.lines
                               ELSE <<HeaderLine>>)
       /\ (pc = "rows" /\ pc' = "save") =>
             /\ Len(csvFile'.lines) = Len(csvFile.lines) + Len(qualifyingHolders)
             /\ \A i \in 1..Len(qualifyingHolders) :
                   LET line == csvFile'.lines[Len(csvFile.lines) + i]
                   IN  /\ line.kind = "row"
                       /\ line.lp = qualifyingHolders[i].lpAddress
                       /\ line.holder = qualifyingHolders[i].holderAddress
                       /\ line.balance = qualifyingHolders[i].balance
                       /\ line.value = qualifyingHolders[i].holdingValue
       /\ (csvFile'.lines # csvFile.lines) =>
             \/ pc = "append" /\ ~csvFile.exists
             \/ pc = "rows"
      ]_vars

\* C10 witness: two records were appended, in their order, after the three
\* lines an earlier run left.
C10_Witness ==
    /\ pc = "save"
    /\ Len(csv0) = 3
    /\ Len(qualifyingHolders) = 2
    /\ Len(csvFile.lines) = 5
    /\ csvFile.lines[4].holder = qualifyingHolders[1].holderAddress
    /\ csvFile.lines[5].holder = qualifyingHolders[2].holderAddress
    /\ qualifyingHolders[1].holderAddress = "h2"

\* C11: when a run ends and no pool of it raised an error, the checkpoint
\* file holds every pool the run discovered (the pools the gate skipped and
\* the pools whose holders were processed) and every pool of the checkpoint
\* the run loaded.
C11_CheckpointHoldsEveryPool ==
    (pc = "exit0" /\ errored = {}) =>
        /\ \A p \in Range(lpPairAddresses) :
              ckptFile.kind = "array" /\ p \in Range(ckptFile.items)
        /\ \A p \in Range(loaded.items) : p \in Range(ckptFile.items)
        /\ \A p \in Range(lpPairsToProcess) : p \in finished

\* C11 witness: a run ended without a pool error after the gate skipped one
\* pool and the holders of the other were processed, with output.
C11_Witness ==
    /\ pc = "exit0"
    /\ errored = {}
    /\ finished = Pools
    /\ \E p \in Pools : <<p, "holders">> \notin ops
    /\ \E p \in Pools : <<p, "append">> \in ops

\* C12: the process exits with code 0 exactly when main returned, that is
\* when the chain height was read, the pairs were filtered and the loop went
\* over every pair to process (each ran to its end or raised a contained
\* error); it exits with code 1 exactly when an error escaped: the chain
\* height read failed, or the filter threw on a checkpoint that is no array.
C12_ExitCode ==
    /\ pc = "exit0" =>
          /\ toBlock \in LatestBlocks
          /\ loadedFrom # "none"
          /\ checkpoint.kind = "array" \/ lpPairAddresses = <<>>
          /\ idx = Len(lpPairsToProcess) + 1
          /\ \A p \in Range(lpPairsToProcess) : p \in finished \cup errored
    /\ pc = "exit1" =>
          \/ toBlock \notin LatestBlocks
          \/ checkpoint.kind # "array" /\ lpPairAddresses # <<>>

\* C12 witness: a run exited with code 0 after one pool raised an error and
\* another one ran to its end.
C12_Witness ==
    /\ pc = "exit0"
    /\ errored # {}
    /\ finished # {}

\* C13: fetchBalanceWithRetries calls balanceOf at most retries times, and
\* when retries (>= 1) attempts all failed with a timeout-class error it has
\* thrown the error of the last attempt, after retries - 1 pauses.
C13_AtMostMaxAttempts ==
    /\ fb.calls <= fb.retries
    /\ fb.calls = Len(fb.fails) + (IF fb.got # NoValue THEN 1 ELSE 0)
    /\ (/\ fb.retries >= 1
        /\ Len(fb.fails) = fb.retries
        /\ \A i \in 1..Len(fb.fails) : fb.fails[i] \in TimeoutCodes) =>
          /\ fb.state = "threw"
          /\ fb.error = fb.fails[fb.retries]
          /\ fb.pauses = fb.retries - 1
    /\ fb.state = "threw" => fb.error = fb.fails[Len(fb.fails)]

\* C13 witness: three attempts timed out, the error of the third is thrown.
C13_Witness ==
    /\ fb.retries = 3
    /\ fb.state = "threw"
    /\ fb.fails = <<"ETIMEDOUT", "ETIMEDOUT", "TIMEOUT">>
    /\ fb.error = "TIMEOUT"
    /\ fb.calls = 3

\* C14: a pool whose processing raised an error that the loop body caught
\* (the output append or the checkpoint write failed) is not in the
\* checkpoint file, so that the next run processes it again, and the loop
\* still goes over every later pool.
C14_ErroredPoolNotCheckpointed ==
    /\ \A p \in errored : p \notin Range(ckptFile.items)
    /\ (AtPool \/ pc = "exit0") =>
          \A i \in 1..Len(lpPairsToProcess) :
              i < idx => lpPairsToProcess[i] \in finished \cup errored

\* C15: a pool whose totalSupply read failed has the value 0 and fails the
\* valuation gate: no holder discovery is made for it, and it goes to the
\* branch that adds it to the checkpoint. (No totalSupply of SupplySet gives
\* the value 0, so a value of 0 is that of a failed read.)
C15_FailedSupplyReadFailsGate ==
    (PastGate /\ poolValue = getLiquidityPoolValue(FALSE, NoValue)) =>
        /\ poolValue = <<0, 0>>
        /\ <<lpAddress, "holders">> \notin ops
        /\ pc = "skip"

\* the records are those of holders of the list, in the order of the list
RecordsFollowHolders ==
    /\ \A i \in 1..Len(qualifyingHolders) :
          qualifyingHolders[i].holderAddress \in Range(holders)
    /\ \A i, j \in 1..Len(qualifyingHolders) :
          i < j => FirstIndex(holders, qualifyingHolders[i].holderAddress)
                      < FirstIndex(holders, qualifyingHolders[j].holderAddress)

\* C16: when the balance read of a holder has thrown (a non-timeout error, or
\* timeouts on all attempts), checkLPHolderValue pushes no record for it and
\* goes on to the next holder of the list with a new read; every holder of
\* the list is examined before the function returns, no holder whose read
\* failed has a record, and the records are in the order of the holder list.
C16_FailedHolderIsSkipped ==
    [][/\ (pc = "check" /\ hIdx' # hIdx) =>
             /\ fb.calls >= 1
             /\ hIdx' = hIdx + 1
             /\ fb.state = "threw" =>
                   /\ fb.error \in ErrorCodes
                   /\ IsTimeout(fb.error) => fb.calls = retries
                   /\ qualifyingHolders' = qualifyingHolders
                   /\ failedReads' = Append(failedReads, holders[hIdx])
                   /\ hIdx < Len(holders) =>
                         pc' = "check" /\ fb' = FbCall(retries)
       /\ (pc' \in {"append", "rows", "save"} /\ holders' # <<>>) =>
             hIdx' = Len(holders') + 1
       /\ \A h \in Range(failedReads') : ~(HasRecord(h))'
       /\ RecordsFollowHolders'
      ]_vars

\* C16 witness: the read of the first of two holders failed, the second one
\* was examined and has the only record.
C16_Witness ==
    /\ pc = "append"
    /\ holders = <<"h2", "h1">>
    /\ failedReads = <<"h2">>
    /\ Len(qualifyingHolders) = 1
    /\ qualifyingHolders[1].holderAddress = "h1"

\* C17: a checkpoint file with corrupt content, be it no JSON or JSON that is
\* no array (an object, a number, null), is treated as the empty checkpoint
\* (every discovered pool is to be processed) and does not make the run fail.
C17_CorruptCheckpointIsEmpty ==
    loadedFrom \in {"garbage", "nonarray"} =>
        /\ pc # "exit1"
        /\ (AtPool \/ pc = "exit0") => lpPairsToProcess = lpPairAddresses

\* an error escaped main: the chain height read failed, or the filter threw
\* on a checkpoint that is no array
Escaped ==
    \/ toBlock \notin LatestBlocks
    \/ checkpoint.kind # "array" /\ lpPairAddresses # <<>>

\* every pair to process was visited
AllVisited ==
    \A p \in Range(lpPairsToProcess) :
        <<p, "value">> \in ops /\ p \in finished \cup errored

\* C18 as stated: every run reaches Done (main returns, exit code 0) after
\* visiting every discovered, unprocessed pool.
C18_RunReachesDone == <>(pc = "exit0" /\ AllVisited)

\* C18, amended: every run ends; it ends with exit code 1 when an error
\* escaped main, and otherwise it reaches Done, and does so from every pool
\* of the loop whatever batch, holder or pool errors occur; at Done every
\* pair to process was visited, and the loop visits the pairs, which are
\* all different, one after the other, each once.
C18_RunTerminates ==
    /\ <>((pc = "exit0" /\ AllVisited) \/ (pc = "exit1" /\ Escaped))
    /\ (AtPool ~> (pc = "exit0" /\ AllVisited))
    /\ [](\A i, j \in 1..Len(lpPairsToProcess) :
             i < j => lpPairsToProcess[i] # lpPairsToProcess[j])
    /\ [][/\ idx' # idx => idx' = idx + 1
          /\ (pc' = "value" /\ pc # "value") => idx' = idx + 1
          /\ pc = "value" => pc' # "value"]_vars

\* C18 witness: the run reached Done after the first pool raised an error
\* and the second one was processed with output.
C18_Witness ==
    /\ pc = "exit0"
    /\ Len(lpPairsToProcess) = 2
    /\ errored = {lpPairsToProcess[1]}
    /\ finished = {lpPairsToProcess[2]}
    /\ <<lpPairsToProcess[2], "append">> \in ops

\* the number of records of holder h in pool p among lines
RowCount(lines, p, h) ==
    Cardinality({i \in 1..Len(lines) :
                    /\ lines[i].kind = "row"
                    /\ lines[i].lp = p
                    /\ lines[i].holder = h})

\* C19: a run writes the record of a (pool, holder) pair at most once, and
\* only for a pool that is not in the checkpoint it loaded, so the output
\* holds at most one record of the pair per run made; the record is written
\* twice (the witness) when a second run processes the pool again.
C19_AtMostOneRecordPerRun ==
    \A p \in Pools, h \in Holders :
        /\ RowCount(csvFile.lines, p, h) <= run
        /\ pc \notin {"start", "killed"} =>
              /\ RowCount(csvFile.lines, p, h) <= RowCount(csv0, p, h) + 1
              /\ RowCount(csvFile.lines, p, h) > RowCount(csv0, p, h) =>
                    p \notin Range(loaded.items)

\* C19 witness: the second run has appended, for a pool it processes again,
\* a record equal to the one an earlier run appended before it stopped
\* without the pool in the checkpoint file.
C19_Witness ==
    /\ run = 2
    /\ AtPool
    /\ <<lpAddress, "append">> \in ops
    /\ \E i, j \in 1..Len(csvFile.lines) :
          /\ i <= Len(csv0) /\ Len(csv0) < j
          /\ csvFile.lines[i].kind = "row"
          /\ csvFile.lines[i].lp = lpAddress
          /\ csvFile.lines[i] = csvFile.lines[j]

\* C20: when the loop body writes the checkpoint at its end (the branch that
\* processed the holders), the qualifying records of the pool are the last
\* lines of the output file, appended in this run; and no step, a kill or a
\* new run included, removes or changes a line of the output. So a pool the
\* run has checkpointed this way has its records in the output in every
\* later state.
C20_AppendPrecedesCheckpoint ==
    [][/\ (pc = "save" /\ ckptFile' # ckptFile) =>
             /\ lpAddress \in Range(ckptFile'.items)
             /\ qualifyingHolders # <<>> =>
                   /\ <<lpAddress, "append">> \in ops
                   /\ Len(csvFile.lines)
                         >= Len(csv0) + Len(qualifyingHolders)
                   /\ SubSeq(csvFile.lines,
                             Len(csvFile.lines) - Len(qualifyingHolders) + 1,
                             Len(csvFile.lines)) = Rows(qualifyingHolders)
       /\ IsPrefix(csvFile.lines, csvFile'.lines)
       /\ ckptFile' # ckptFile => pc \in {"skip", "save"}
      ]_vars

\* C20 witness: the first pool went through the holder branch, its record
\* is in the output and it is in the checkpoint file; the loop is at the
\* second pool.
C20_Witness ==
    /\ pc = "value"
    /\ idx = 2
    /\ lpPairsToProcess[1] \in finished
    /\ <<lpPairsToProcess[1], "append">> \in ops
    /\ lpPairsToProcess[1] \in Range(ckptFile.items)
    /\ LinesOf(csvFile.lines, lpPairsToProcess[1]) # <<>>

\* the pool whose valuation was made last: the pool before the one the loop
\* has just moved to
LastPool == lpPairsToProcess[idx - 1]

\* the loop has finished the body of a pool and has not valued the next one
BetweenPools ==
    /\ pc \in {"value", "exit0"}
    /\ idx >= 2
    /\ idx - 1 <= Len(lpPairsToProcess)

\* C21: when a batch of the holder discovery of pool P failed, the holders
\* of P are the recipients of the batches that succeeded and only they get a
\* balance read; P is in the checkpoint file when its processing ends
\* (unless the append or the checkpoint write itself threw); no step takes an
\* address out of an array checkpoint file; a run loads the array of the
\* file as it is and makes no call for a pool of the checkpoint it loaded.
\* So the recipients of the failed batches are examined in no run.
C21_LostHoldersNeverExamined ==
    [][/\ (pc = "holders" /\ pc' \in {"check", "save"}) =>
             /\ lostBatch' = SomeBatchFailed(pg.log)
             /\ holders' = Unique(EventsOf(pg.log))
       /\ (lostBatch' /\ pc' = "check") =>
             /\ hIdx' \in 1..Len(holders')
             /\ pc = "check" => holders' = holders
       /\ (lostBatch' /\ BetweenPools') =>
             \/ LastPool' \in Range(ckptFile'.items)
             \/ LastPool' \in errored'
       /\ (ckptFile.kind = "array" /\ ckptFile' # ckptFile) =>
             /\ ckptFile'.kind = "array"
             /\ Range(ckptFile.items) \subseteq Range(ckptFile'.items)
       /\ (pc = "load" /\ pc' = "pairs" /\ ckptFile.kind = "array") =>
             checkpoint' = CkptValue("array", ckptFile.items)
       /\ \A p \in Range(loaded'.items), kind \in OpKinds :
             <<p, kind>> \notin ops'
      ]_vars

\* C21 witness: a batch of the holder discovery of the first pool failed,
\* a holder of a batch that succeeded had its balance read, and the pool is
\* in the checkpoint file; the loop is at the second pool.
C21_Witness ==
    /\ pc = "value"
    /\ idx = 2
    /\ lostBatch
    /\ <<LastPool, "balance">> \in ops
    /\ LastPool \in finished
    /\ LastPool \in Range(ckptFile.items)

\* C22: in a run that loaded its checkpoint as an array, every write of the
\* checkpoint file stores an array that begins with the loaded checkpoint
\* and, when the run wrote before, with what it wrote last (so it holds the
\* addresses of every earlier write); each pool is in it at most once more
\* than in the loaded checkpoint, and a pool the run added was not in the
\* loaded checkpoint.
C22_CheckpointOnlyGrows ==
    [][(ckptFile' # ckptFile /\ loaded.kind = "array") =>
          /\ pc \in {"skip", "save"}
          /\ ckptFile'.kind = "array"
          /\ IsPrefix(loaded.items, ckptFile'.items)
          /\ Range(loaded.items) \subseteq Range(ckptFile'.items)
          /\ finished # {} =>
                /\ IsPrefix(ckptFile.items, ckptFile'.items)
                /\ Range(ckptFile.items) \subseteq Range(ckptFile'.items)
          /\ Len(ckptFile'.items) > Len(loaded.items)
          /\ \A p \in Pools :
                /\ Count(ckptFile'.items, p) <= Count(loaded.items, p) + 1
                /\ Count(ckptFile'.items, p) > Count(loaded.items, p) =>
                      /\ p \notin Range(loaded.items)
                      /\ p \in Range(lpPairsToProcess)
      ]_vars

\* C22 witness: the second run loaded a non-empty array from the checkpoint
\* file and has written it again with one more pool.
C22_Witness ==
    /\ run = 2
    /\ loadedFrom = "array"
    /\ loaded.items # <<>>
    /\ finished # {}
    /\ Len(ckptFile.items) = Len(loaded.items) + 1
    /\ IsPrefix(loaded.items, ckptFile.items)
    /\ \E p \in finished : Count(ckptFile.items, p) = 1

====
